---- MODULE Spec2Model ----
(***************************************************************************)
(* Model of solana-movie-token-client/src/index.ts: the script that builds *)
(* the "initialize token mint" instruction of the movie-review program,    *)
(* wraps it in a transaction and submits it through web3.js.               *)
(*                                                                         *)
(* Two specifications:                                                     *)
(*   Spec        one run of the script (main and its then/catch chain);    *)
(*   SpecBuilder one call of initializeProgramTokenMint with its signer    *)
(*               and programId arguments drawn from bounded sets.          *)
(***************************************************************************)
EXTENDS Integers, Sequences, FiniteSets, TLC

VARIABLES
    pc,          \* position of the run (which statement executes next)
    connection,  \* endpoint of the web3.Connection
    programId,   \* the programId argument of initializeProgramTokenMint
    signer,      \* the Keypair returned by initializeKeypair
    tokenMint,   \* const [tokenMint]
    tokenAuth,   \* const [tokenAuth]
    tx,          \* const tx
    ix,          \* const ix
    sent,        \* calls of sendAndConfirmTransaction received by the node
    txid,        \* signature returned by sendAndConfirmTransaction
    error,       \* rejection reason of the promise chain
    stdout,      \* values written by console.log, in order
    exitCode     \* argument of process.exit, NotExited before

vars == <<pc, connection, programId, signer, tokenMint, tokenAuth, tx, ix,
          sent, txid, error, stdout, exitCode>>

----------------------------------------------------------------------------
(* Bounds of the model: how many keypairs initializeKeypair may hand out,  *)
(* how many signatures the node may answer with, how many distinct errors  *)
(* a collaborator may throw.                                               *)
NumSigners == 4
NumTxids == 4
NumErrors == 4

(* Values *)
undefined == [undefined |-> TRUE]
NoTxid == ""
NotExited == -1

PublicKey(b58) == [base58 |-> b58]

Keypair(i) == [publicKey |-> PublicKey("signer" \o ToString(i)), secretKey |-> i]
Keypairs == {Keypair(i) : i \in 1..NumSigners}
Txids == {"sig" \o ToString(i) : i \in 1..NumTxids}
Errors == {[message |-> "error" \o ToString(i)] : i \in 1..NumErrors}

PROGRAM_ID == PublicKey("4QPCBtQ1qSwTmUy9yrGZoqCjZPen8eCE2HcHtKeNWYj6")
SystemProgramId == PublicKey("11111111111111111111111111111111")
TOKEN_PROGRAM_ID == PublicKey("TokenkegQfeZyiNwAJbNbGKPFXCWuBvf9Ss623VQ5DA")
SYSVAR_RENT_PUBKEY == PublicKey("SysvarRent111111111111111111111111111111111")
LocalEndpoint == "http://localhost:8899"

(* Program identifiers a caller of initializeProgramTokenMint may pass. *)
ProgramIds == {PROGRAM_ID, SystemProgramId, TOKEN_PROGRAM_ID}

----------------------------------------------------------------------------
(* web3.PublicKey.findProgramAddress(seeds, programId).                    *)
(* createProgramAddress hashes seed ++ <<bump>> ++ programId ++            *)
(* "ProgramDerivedAddress" with SHA-256 and throws when the digest is a    *)
(* point of the ed25519 curve; findProgramAddress tries the bumps 255, 254,*)
(* ... and returns the first digest that is off the curve.  Sha256Pda      *)
(* tabulates the digests (base58) for the inputs the model uses, down to   *)
(* the first bump that is off the curve.                                   *)
MaxSeedBump == 255

Sha256Pda ==
    <<PROGRAM_ID.base58, "token_mint", 255>> :>
        [digest |-> "GsBMmVUVo4L3PtNUNMAvS9grqbdpuWu2bZjiM5jZfzBw", onCurve |-> TRUE]
 @@ <<PROGRAM_ID.base58, "token_mint", 254>> :>
        [digest |-> "HPLucuErzspDcfxTtEQRupvwKLApdoFnm1dKXnkBsx13", onCurve |-> FALSE]
 @@ <<PROGRAM_ID.base58, "token_auth", 255>> :>
        [digest |-> "B8CL8B2r82kZEocSmJpduhRcP8R7oG5hKXeJuKos6Z1Z", onCurve |-> TRUE]
 @@ <<PROGRAM_ID.base58, "token_auth", 254>> :>
        [digest |-> "GUEZhJB51hJoS64hsA8M9LVqsWMBE6j2nN51L4yfU6wv", onCurve |-> TRUE]
 @@ <<PROGRAM_ID.base58, "token_auth", 253>> :>
        [digest |-> "2VyCsVHDF6LFUB9nvXKuGfi3k9vpmx12XsyPMZuGhWeh", onCurve |-> FALSE]
 @@ <<SystemProgramId.base58, "token_mint", 255>> :>
        [digest |-> "Fwj732rGvgpg3yqzKojNzHm4zzu2vBFEjGcS4zoFWZAH", onCurve |-> TRUE]
 @@ <<SystemProgramId.base58, "token_mint", 254>> :>
        [digest |-> "CjfQupXko4Pr7aGMu5C6sqWSVAiAJ755pZYYgs8FaX4v", onCurve |-> FALSE]
 @@ <<SystemProgramId.base58, "token_auth", 255>> :>
        [digest |-> "EewWVmx2LtgTZdsBg3sMqgy7JAuqx5WhfCh29BpN1Unf", onCurve |-> FALSE]
 @@ <<TOKEN_PROGRAM_ID.base58, "token_mint", 255>> :>
        [digest |-> "8ca8ZoYrULXUZu9gr8g7W6Pn17DSWH4aEsec27i1AX4L", onCurve |-> TRUE]
 @@ <<TOKEN_PROGRAM_ID.base58, "token_mint", 254>> :>
        [digest |-> "8AZ7F72JRMU3iEuSSbncamGpGZ77CNTZL41X1m2U5sdA", onCurve |-> FALSE]
 @@ <<TOKEN_PROGRAM_ID.base58, "token_auth", 255>> :>
        [digest |-> "Cji9z2giAB5GCN6WDv7jGrbJcj9YRaz3xWYdEkw7WrTP", onCurve |-> TRUE]
 @@ <<TOKEN_PROGRAM_ID.base58, "token_auth", 254>> :>
        [digest |-> "7nSEDwMpc5KZnj2EyicZGh2QJ5PTG5WpBmv2pRKHuZJX", onCurve |-> FALSE]

(* Variant: the seed is left out of the hash input, every seed hashes as   *)
(* "token_mint" does.                                                      *)
createProgramAddress_IgnoresSeed(seed, bump, pid) ==
    LET h == Sha256Pda[<<pid.base58, "token_mint", bump>>]
    IN  IF h.onCurve THEN undefined ELSE PublicKey(h.digest)

(* The result of one attempt: the address, or undefined when the digest is *)
(* on the curve (createProgramAddress throws and the next bump is tried).  *)
createProgramAddress(seed, bump, pid) ==
    LET h == Sha256Pda[<<pid.base58, seed, bump>>]
    IN  IF h.onCurve THEN undefined ELSE PublicKey(h.digest)

RECURSIVE findNonce(_, _, _)
findNonce(seed, pid, bump) ==
    IF bump < 0
    THEN undefined          \* "Unable to find a viable program address nonce"
    ELSE LET a == createProgramAddress(seed, bump, pid)
         IN  IF a = undefined THEN findNonce(seed, pid, bump - 1) ELSE a

findProgramAddress(seed, pid) == findNonce(seed, pid, MaxSeedBump)

DerivationError == [message |-> "Unable to find a viable program address nonce"]

----------------------------------------------------------------------------
(* Buffer.from(array): each element is stored as one byte. *)
BufferFrom(arr) == [i \in DOMAIN arr |-> arr[i] % 256]

InitializeMintOpcode == 3

AccountMeta(pubkey, isSigner, isWritable) ==
    [pubkey |-> pubkey, isSigner |-> isSigner, isWritable |-> isWritable]

(* Variant: tokenAuth and tokenMint listed in the opposite order. *)
TransactionInstruction_SwappedMintAuth(signerKey, mint, auth) ==
    [keys |-> << AccountMeta(signerKey, TRUE, FALSE),
                 AccountMeta(auth, FALSE, FALSE),
                 AccountMeta(mint, FALSE, TRUE),
                 AccountMeta(SystemProgramId, FALSE, FALSE),
                 AccountMeta(TOKEN_PROGRAM_ID, FALSE, FALSE),
                 AccountMeta(SYSVAR_RENT_PUBKEY, FALSE, FALSE) >>,
     programId |-> PROGRAM_ID,
     data |-> BufferFrom(<<InitializeMintOpcode>>)]

(* Variant: data built as Buffer.from("3"), the ASCII code of the digit. *)
TransactionInstruction_AsciiOpcode(signerKey, mint, auth) ==
    [keys |-> << AccountMeta(signerKey, TRUE, FALSE),
                 AccountMeta(mint, FALSE, TRUE),
                 AccountMeta(auth, FALSE, FALSE),
                 AccountMeta(SystemProgramId, FALSE, FALSE),
                 AccountMeta(TOKEN_PROGRAM_ID, FALSE, FALSE),
                 AccountMeta(SYSVAR_RENT_PUBKEY, FALSE, FALSE) >>,
     programId |-> PROGRAM_ID,
     data |-> BufferFrom(<<51>>)]

(* Variant: the signer's key is passed as the authority account. *)
TransactionInstruction_SignerAuthority(signerKey, mint, auth) ==
    [keys |-> << AccountMeta(signerKey, TRUE, FALSE),
                 AccountMeta(mint, FALSE, TRUE),
                 AccountMeta(signerKey, FALSE, FALSE),
                 AccountMeta(SystemProgramId, FALSE, FALSE),
                 AccountMeta(TOKEN_PROGRAM_ID, FALSE, FALSE),
                 AccountMeta(SYSVAR_RENT_PUBKEY, FALSE, FALSE) >>,
     programId |-> PROGRAM_ID,
     data |-> BufferFrom(<<InitializeMintOpcode>>)]

(* new web3.TransactionInstruction({keys, programId, data}), lines 25-60. *)
TransactionInstruction(signerKey, mint, auth) ==
    [keys |-> << AccountMeta(signerKey, TRUE, FALSE),
                 AccountMeta(mint, FALSE, TRUE),
                 AccountMeta(auth, FALSE, FALSE),
                 AccountMeta(SystemProgramId, FALSE, FALSE),
                 AccountMeta(TOKEN_PROGRAM_ID, FALSE, FALSE),
                 AccountMeta(SYSVAR_RENT_PUBKEY, FALSE, FALSE) >>,
     programId |-> PROGRAM_ID,
     data |-> BufferFrom(<<InitializeMintOpcode>>)]

(* console.log(value): what reaches standard output is a line of text or  *)
(* the rendering of a thrown value.                                        *)
LogText(s) == [text |-> s]
LogThrown(e) == [thrown |-> e]

(* Variant: the template interpolates an unbound txid. *)
SubmittedLine_Unbound(t) ==
    "Transaction submitted: https://explorer.solana.com/tx/undefined?cluster=devnet"

(* The line main prints after the call returned. *)
SubmittedLine(t) ==
    "Transaction submitted: https://explorer.solana.com/tx/" \o t \o "?cluster=devnet"

FinishedLine == "Finished successfully"

----------------------------------------------------------------------------
(* State after module load, at the first statement of main(). *)
Init ==
    /\ pc = "load_keypair"
    /\ connection = LocalEndpoint
    /\ programId = PROGRAM_ID
    /\ signer = undefined
    /\ tokenMint = undefined
    /\ tokenAuth = undefined
    /\ tx = undefined
    /\ ix = undefined
    /\ sent = <<>>
    /\ txid = NoTxid
    /\ error = undefined
    /\ stdout = <<>>
    /\ exitCode = NotExited

(* Entry of initializeProgramTokenMint(connection, signer, programId). *)
InitBuilder ==
    /\ pc = "derive_mint"
    /\ connection = LocalEndpoint
    /\ programId \in ProgramIds
    /\ signer \in Keypairs
    /\ tokenMint = undefined
    /\ tokenAuth = undefined
    /\ tx = undefined
    /\ ix = undefined
    /\ sent = <<>>
    /\ txid = NoTxid
    /\ error = undefined
    /\ stdout = <<>>
    /\ exitCode = NotExited

(* Line 68: const signer = await initializeKeypair(connection). *)
LoadKeypair ==
    /\ pc = "load_keypair"
    /\ \/ \E k \in Keypairs :
            /\ signer' = k
            /\ pc' = "derive_mint"
            /\ error' = error
       \/ \E e \in Errors :
            /\ error' = e
            /\ pc' = "rejected"
            /\ signer' = signer
    /\ UNCHANGED <<connection, programId, tokenMint, tokenAuth, tx, ix, sent,
                   txid, stdout, exitCode>>

(* Lines 14-17. *)
DeriveTokenMint ==
    /\ pc = "derive_mint"
    /\ LET a == findProgramAddress("token_mint", PROGRAM_ID)
       IN  IF a = undefined
           THEN /\ error' = DerivationError
                /\ pc' = "rejected"
                /\ tokenMint' = tokenMint
           ELSE /\ tokenMint' = a
                /\ pc' = "derive_auth"
                /\ error' = error
    /\ UNCHANGED <<connection, programId, signer, tokenAuth, tx, ix, sent,
                   txid, stdout, exitCode>>

(* Lines 18-21. *)
DeriveTokenAuth ==
    /\ pc = "derive_auth"
    /\ LET a == findProgramAddress("token_auth", PROGRAM_ID)
       IN  IF a = undefined
           THEN /\ error' = DerivationError
                /\ pc' = "rejected"
                /\ tokenAuth' = tokenAuth
           ELSE /\ tokenAuth' = a
                /\ pc' = "new_tx"
                /\ error' = error
    /\ UNCHANGED <<connection, programId, signer, tokenMint, tx, ix, sent,
                   txid, stdout, exitCode>>

(* Line 24: const tx = new web3.Transaction(). *)
NewTransaction ==
    /\ pc = "new_tx"
    /\ tx' = [instructions |-> <<>>]
    /\ pc' = "build_ix"
    /\ UNCHANGED <<connection, programId, signer, tokenMint, tokenAuth, ix,
                   sent, txid, error, stdout, exitCode>>

(* Lines 25-60: const ix = new web3.TransactionInstruction({...}). *)
BuildInstruction ==
    /\ pc = "build_ix"
    /\ ix' = TransactionInstruction(signer.publicKey, tokenMint, tokenAuth)
    /\ pc' = "tx_add"
    /\ UNCHANGED <<connection, programId, signer, tokenMint, tokenAuth, tx,
                   sent, txid, error, stdout, exitCode>>

(* Line 62: tx.add(ix). *)
TxAdd ==
    /\ pc = "tx_add"
    /\ tx' = [tx EXCEPT !.instructions = Append(@, ix)]
    /\ pc' = "send"
    /\ UNCHANGED <<connection, programId, signer, tokenMint, tokenAuth, ix,
                   sent, txid, error, stdout, exitCode>>

(* Variant: the call passes an empty signer list. *)
SendTransaction_NoSigners ==
    /\ pc = "send"
    /\ sent' = Append(sent, [connection |-> connection,
                             transaction |-> tx,
                             signers |-> <<>>])
    /\ pc' = "confirming"
    /\ UNCHANGED <<connection, programId, signer, tokenMint, tokenAuth, tx, ix,
                   txid, error, stdout, exitCode>>

(* Line 63, the call: web3.sendAndConfirmTransaction(connection, tx,       *)
(* [signer]) is handed to the node and the function suspends.              *)
SendTransaction ==
    /\ pc = "send"
    /\ sent' = Append(sent, [connection |-> connection,
                             transaction |-> tx,
                             signers |-> <<signer>>])
    /\ pc' = "confirming"
    /\ UNCHANGED <<connection, programId, signer, tokenMint, tokenAuth, tx, ix,
                   txid, error, stdout, exitCode>>

(* Variant: a failed submission is submitted again. *)
ConfirmTransaction_Retry ==
    /\ pc = "confirming"
    /\ \/ \E t \in Txids :
            /\ txid' = t
            /\ pc' = "returned"
            /\ error' = error
       \/ \E e \in Errors :
            /\ error' = e
            /\ pc' = "send"
            /\ txid' = txid
    /\ UNCHANGED <<connection, programId, signer, tokenMint, tokenAuth, tx, ix,
                   sent, stdout, exitCode>>

(* Line 63, the await: the node confirms with a signature, or the call     *)
(* throws; either way the result is the result of the function.            *)
ConfirmTransaction ==
    /\ pc = "confirming"
    /\ \/ \E t \in Txids :
            /\ txid' = t
            /\ pc' = "returned"
            /\ error' = error
       \/ \E e \in Errors :
            /\ error' = e
            /\ pc' = "rejected"
            /\ txid' = txid
    /\ UNCHANGED <<connection, programId, signer, tokenMint, tokenAuth, tx, ix,
                   sent, stdout, exitCode>>

(* Variant: the call is not awaited, main prints while it is in flight. *)
PrintSubmitted_NoAwait ==
    /\ pc = "confirming"
    /\ stdout' = Append(stdout, LogText(SubmittedLine(txid)))
    /\ pc' = "resolved"
    /\ UNCHANGED <<connection, programId, signer, tokenMint, tokenAuth, tx, ix,
                   sent, txid, error, exitCode>>

(* Lines 70-74: main binds txid, prints the explorer line and resolves. *)
PrintSubmitted ==
    /\ pc = "returned"
    /\ stdout' = Append(stdout, LogText(SubmittedLine(txid)))
    /\ pc' = "resolved"
    /\ UNCHANGED <<connection, programId, signer, tokenMint, tokenAuth, tx, ix,
                   sent, txid, error, exitCode>>

(* Lines 77-80: the then callback. *)
OnFulfilled ==
    /\ pc = "resolved"
    /\ stdout' = Append(stdout, LogText(FinishedLine))
    /\ exitCode' = 0
    /\ pc' = "exited"
    /\ UNCHANGED <<connection, programId, signer, tokenMint, tokenAuth, tx, ix,
                   sent, txid, error>>

(* Variant: the catch callback reports success to the shell. *)
OnRejected_ExitZero ==
    /\ pc = "rejected"
    /\ stdout' = Append(stdout, LogThrown(error))
    /\ exitCode' = 0
    /\ pc' = "exited"
    /\ UNCHANGED <<connection, programId, signer, tokenMint, tokenAuth, tx, ix,
                   sent, txid, error>>

(* Lines 81-84: the catch callback. *)
OnRejected ==
    /\ pc = "rejected"
    /\ stdout' = Append(stdout, LogThrown(error))
    /\ exitCode' = 1
    /\ pc' = "exited"
    /\ UNCHANGED <<connection, programId, signer, tokenMint, tokenAuth, tx, ix,
                   sent, txid, error>>

Next ==
    \/ LoadKeypair
    \/ DeriveTokenMint
    \/ DeriveTokenAuth
    \/ NewTransaction
    \/ BuildInstruction
    \/ TxAdd
    \/ SendTransaction
    \/ ConfirmTransaction
    \/ PrintSubmitted
    \/ OnFulfilled
    \/ OnRejected

Spec == Init /\ [][Next]_vars

(* The event loop runs a continuation that is ready: main after the call   *)
(* returned, the then callback after main resolved, the catch callback     *)
(* after a rejection.  Nothing obliges the collaborators to answer.        *)
FairSpec ==
    /\ Spec
    /\ WF_vars(PrintSubmitted)
    /\ WF_vars(OnFulfilled)
    /\ WF_vars(OnRejected)

(* The steps of initializeProgramTokenMint alone; the call ends at         *)
(* pc = "returned" (txid is the result) or pc = "rejected" (error thrown). *)
NextBuilder ==
    \/ DeriveTokenMint
    \/ DeriveTokenAuth
    \/ NewTransaction
    \/ BuildInstruction
    \/ TxAdd
    \/ SendTransaction
    \/ ConfirmTransaction

SpecBuilder == InitBuilder /\ [][NextBuilder]_vars

----------------------------------------------------------------------------
(* Properties *)

(* C1: the built instruction has exactly 6 account entries, in the order   *)
(* signer (signer, read-only), tokenMint (writable), tokenAuth, system     *)
(* program, token program, rent sysvar (the last four neither signer nor   *)
(* writable), whichever signer the run loaded.                             *)
C1_AccountLayout ==
    ix # undefined =>
        /\ Len(ix.keys) = 6
        /\ ix.keys[1] = [pubkey |-> signer.publicKey, isSigner |-> TRUE, isWritable |-> FALSE]
        /\ ix.keys[2] = [pubkey |-> tokenMint, isSigner |-> FALSE, isWritable |-> TRUE]
        /\ ix.keys[3] = [pubkey |-> tokenAuth, isSigner |-> FALSE, isWritable |-> FALSE]
        /\ ix.keys[4] = [pubkey |-> PublicKey("11111111111111111111111111111111"),
                         isSigner |-> FALSE, isWritable |-> FALSE]
        /\ ix.keys[5] = [pubkey |-> PublicKey("TokenkegQfeZyiNwAJbNbGKPFXCWuBvf9Ss623VQ5DA"),
                         isSigner |-> FALSE, isWritable |-> FALSE]
        /\ ix.keys[6] = [pubkey |-> PublicKey("SysvarRent111111111111111111111111111111111"),
                         isSigner |-> FALSE, isWritable |-> FALSE]

C1_Witness ==
    /\ pc = "tx_add"
    /\ ix # undefined
    /\ signer = Keypair(2)
    /\ tokenMint \notin {undefined, tokenAuth}

(* C2: the data of the built instruction, and of every instruction handed  *)
(* to the node, is the one-byte sequence <<3>>.                            *)
C2_OpcodePayload ==
    /\ ix # undefined => (Len(ix.data) = 1 /\ ix.data[1] = 3)
    /\ \A i \in DOMAIN sent :
         \A j \in DOMAIN sent[i].transaction.instructions :
            sent[i].transaction.instructions[j].data = <<3>>

C2_Witness ==
    /\ Len(sent) = 1
    /\ Len(sent[1].transaction.instructions) = 1
    /\ ix # undefined
    /\ signer = Keypair(NumSigners)

(* C3: once a stage has failed, the run prints neither success line and    *)
(* never exits with 0; when it has exited, the thrown value is the only    *)
(* thing printed and the exit code is 1.                                   *)
C3_FailurePropagates ==
    error # undefined =>
        /\ exitCode # 0
        /\ \A i \in DOMAIN stdout : stdout[i] = LogThrown(error)
        /\ \A i \in DOMAIN stdout, t \in Txids \cup {NoTxid} :
              /\ stdout[i] # LogText(
                    "Transaction submitted: https://explorer.solana.com/tx/" \o t
                        \o "?cluster=devnet")
              /\ stdout[i] # LogText("Finished successfully")
        /\ pc = "exited" => (stdout = <<LogThrown(error)>> /\ exitCode = 1)
        /\ pc \in {"rejected", "exited"}

C3_Witness ==
    /\ pc = "exited"
    /\ error \in Errors
    /\ Len(sent) = 1
    /\ exitCode = 1

(* C4: exit code 0 is reached only after sendAndConfirmTransaction returned *)
(* a transaction identifier t and the explorer URL of exactly that t was   *)
(* printed, and whenever the call returns t the run goes on to print the   *)
(* URL of t and to exit with code 0.                                       *)
C4_SuccessPrintsTxid ==
    /\ [](exitCode = 0 =>
            /\ txid \in Txids
            /\ Len(stdout) = 2
            /\ stdout[1] = LogText(
                  "Transaction submitted: https://explorer.solana.com/tx/" \o txid
                      \o "?cluster=devnet"))
    /\ []((txid # NoTxid /\ pc = "exited") => exitCode = 0)
    /\ [](txid = NoTxid => exitCode # 0)
    /\ \A t \in Txids :
          (txid = t) ~>
             /\ exitCode = 0
             /\ stdout[1] = LogText(
                   "Transaction submitted: https://explorer.solana.com/tx/" \o t
                       \o "?cluster=devnet")

C4_Witness ==
    /\ pc = "exited"
    /\ exitCode = 0
    /\ txid = "sig2"
    /\ stdout[1] = LogText(
          "Transaction submitted: https://explorer.solana.com/tx/sig2?cluster=devnet")

(* C5: the node receives at most one submission per run, and once an error *)
(* has been thrown no step submits again.                                  *)
C5_NoRetry ==
    /\ [](Len(sent) <= 1)
    /\ [][error # undefined => sent' = sent]_vars
    /\ [][(error' # undefined /\ Len(sent) = 1) => Len(sent') = 1]_vars

C5_Witness ==
    /\ pc = "exited"
    /\ error \in Errors
    /\ Len(sent) = 1

(* C6: every transaction handed to sendAndConfirmTransaction holds exactly *)
(* one instruction, the one built in this call, and is signed by exactly   *)
(* one keypair, whose public key is account entry 1 (flagged is-signer).   *)
C6_OneInstructionOneSigner ==
    \A i \in DOMAIN sent :
        /\ sent[i].transaction.instructions = <<ix>>
        /\ Len(sent[i].signers) = 1
        /\ sent[i].signers[1] = signer
        /\ sent[i].signers[1].publicKey = sent[i].transaction.instructions[1].keys[1].pubkey
        /\ sent[i].transaction.instructions[1].keys[1].isSigner
        /\ \A k \in 2..6 : ~sent[i].transaction.instructions[1].keys[k].isSigner

C6_Witness ==
    /\ pc = "confirming"
    /\ Len(sent) = 1
    /\ sent[1].signers = <<Keypair(3)>>

(* C7: the steps run in the order load keypair, derive tokenMint, derive   *)
(* tokenAuth, build the instruction, add it to the transaction, submit,    *)
(* print, exit: no step runs before the ones it follows have completed,    *)
(* and nothing is printed before the submission returned or a step failed. *)
Stage(p) ==
    CASE p = "load_keypair" -> 1
      [] p = "derive_mint" -> 2
      [] p = "derive_auth" -> 3
      [] p = "new_tx" -> 4
      [] p = "build_ix" -> 5
      [] p = "tx_add" -> 6
      [] p = "send" -> 7
      [] p = "confirming" -> 8
      [] p \in {"returned", "rejected"} -> 9
      [] p = "resolved" -> 10
      [] p = "exited" -> 11

C7_Order ==
    /\ [][Stage(pc') > Stage(pc)]_vars
    /\ [](tokenMint # undefined => signer # undefined)
    /\ [](tokenAuth # undefined => tokenMint # undefined)
    /\ [](ix # undefined => (tokenAuth # undefined /\ tx # undefined))
    /\ []((tx # undefined /\ tx.instructions # <<>>) => ix # undefined)
    /\ [](sent # <<>> =>
            /\ signer # undefined
            /\ tokenMint # undefined
            /\ tokenAuth # undefined
            /\ ix # undefined
            /\ tx.instructions = <<ix>>)
    /\ [](txid # NoTxid => sent # <<>>)
    /\ [](stdout # <<>> => (txid # NoTxid \/ error # undefined))
    /\ [](exitCode # NotExited => stdout # <<>>)

C7_Witness ==
    /\ pc = "exited"
    /\ sent # <<>>
    /\ txid # NoTxid
    /\ Len(stdout) = 2

(* C8: apart from account entry 1 the built instruction does not depend   *)
(* on the signer: the instruction of the run and the instruction the same  *)
(* statements build for any other signer have the same target program, the *)
(* same data and the same account entries 2 to 6.                          *)
BuiltFor(k) ==
    TransactionInstruction(k.publicKey,
                           findProgramAddress("token_mint", PROGRAM_ID),
                           findProgramAddress("token_auth", PROGRAM_ID))

C8_SignerIndependent ==
    ix # undefined =>
        /\ ix = BuiltFor(signer)
        /\ \A k \in Keypairs :
              /\ BuiltFor(k).programId = ix.programId
              /\ BuiltFor(k).data = ix.data
              /\ Len(BuiltFor(k).keys) = Len(ix.keys)
              /\ \A n \in 2..Len(ix.keys) : BuiltFor(k).keys[n] = ix.keys[n]
              /\ BuiltFor(k).keys[1].pubkey = k.publicKey

C8_Witness ==
    /\ ix # undefined
    /\ signer = Keypair(1)
    /\ BuiltFor(Keypair(2)).keys[1] # ix.keys[1]
    /\ pc = "send"

C10_UsesProgramIdArgument ==
    /\ tokenMint # undefined => tokenMint = findProgramAddress("token_mint", programId)
    /\ tokenAuth # undefined => tokenAuth = findProgramAddress("token_auth", programId)
    /\ ix # undefined => ix.programId = programId

====
